---- MODULE Spec2Model ----
(***************************************************************************)
(* Model of validate_cinema_data.py: the Validator (validate_cinema_data)  *)
(* and the Fixer (auto_fix_data) acting on one stored JSON document.       *)
(*                                                                         *)
(* JSON objects are functions from key strings to values, so a missing key *)
(* is a key outside DOMAIN; JSON arrays are sequences; JSON strings are    *)
(* strings.  Messages the code formats with f-strings are records of the   *)
(* values interpolated into them.  The report's timestamp is left out.     *)
(*                                                                         *)
(* A stored file is absent, present but not JSON, or a JSON document, held *)
(* as the value json.load returns for it: json.dump(data, indent=2) writes *)
(* a text that json.load reads back as the same value, so the layout of    *)
(* the text is not part of the state.  Documents have the shape of the     *)
(* scraper's output: an object, its "cinemas" an array of objects, their   *)
(* "films" arrays of objects, their "showtimes" arrays of strings.         *)
(***************************************************************************)
EXTENDS FiniteSets, Integers, Sequences, TLC

VARIABLES data_file, backup_file, call, returned, fixes_applied, pre

vars == <<data_file, backup_file, call, returned, fixes_applied, pre>>

(***************************************************************************)
(* Program constants.                                                      *)
(***************************************************************************)
MaxShowtimesPerFilm == 4
MaxFilmsPerDay == 30
HighFilmsPerDay == 20
MaxTotalFilms == 500
RegularCap == 3
OtherCap == 5

(***************************************************************************)
(* Bounds of the model.                                                    *)
(***************************************************************************)
MaxCinemas == 2
MaxFilms == 2
MaxLen == 2

(***************************************************************************)
(* Python built-ins used by the code.                                      *)
(***************************************************************************)

\* dict.get(key, default)
Get(obj, key, default) == IF key \in DOMAIN obj THEN obj[key] ELSE default

\* obj[key] = val
Put(obj, key, val) ==
    [k \in DOMAIN obj \cup {key} |-> IF k = key THEN val ELSE obj[k]]

\* set(list)
Range(s) == {s[i] : i \in 1..Len(s)}

\* needle in haystack, for str
Contains(haystack, needle) ==
    \E i \in 1..(Len(haystack) - Len(needle) + 1) :
        SubSeq(haystack, i, i + Len(needle) - 1) = needle

\* ord(c) for the characters showtime strings are made of (ASCII 48..58)
Alphabet == "0123456789:"

Ord(c) == 47 + (CHOOSE i \in 1..Len(Alphabet) : SubSeq(Alphabet, i, i) = c)

\* a < b for str: decided by the code points at the first position where
\* the two differ; when there is none, the shorter one is smaller
LexLess(a, b) ==
    LET shorter == IF Len(a) < Len(b) THEN Len(a) ELSE Len(b)
        differ == {i \in 1..shorter : SubSeq(a, i, i) # SubSeq(b, i, i)}
    IN  IF differ = {} THEN Len(a) < Len(b)
        ELSE LET first == CHOOSE i \in differ : \A j \in differ : i <= j
             IN  Ord(SubSeq(a, first, first)) < Ord(SubSeq(b, first, first))

\* sorted(S) for a set of str
RECURSIVE Sorted(_)
Sorted(S) ==
    IF S = {} THEN <<>>
    ELSE LET least == CHOOSE s \in S : \A t \in S : ~LexLess(t, s)
         IN  <<least>> \o Sorted(S \ {least})

\* the concatenation of seqs[lo..hi], in order (list.append in a loop)
RECURSIVE FlattenRange(_, _, _)
FlattenRange(seqs, lo, hi) ==
    IF lo > hi THEN <<>>
    ELSE IF lo = hi THEN seqs[lo]
    ELSE LET mid == (lo + hi) \div 2
         IN  FlattenRange(seqs, lo, mid) \o FlattenRange(seqs, mid + 1, hi)

Flatten(seqs) == FlattenRange(seqs, 1, Len(seqs))

\* the sum of f over DOMAIN f
RECURSIVE SumOver(_, _)
SumOver(f, keys) ==
    IF keys = {} THEN 0
    ELSE LET k == CHOOSE x \in keys : TRUE
         IN  f[k] + SumOver(f, keys \ {k})

(***************************************************************************)
(* auto_fix_data: the per-film pipeline, the per-cinema loop, the dataset. *)
(* A step returns the showtimes it leaves and the entries it appends to    *)
(* fixes_applied.                                                          *)
(***************************************************************************)

unique_showtimes(showtimes) == Sorted(Range(showtimes))

\* RemoveDuplicates with <= for <: the sorted list always replaces the list
RemoveDuplicatesAlways(title, showtimes) ==
    LET unique == unique_showtimes(showtimes)
    IN  IF Len(unique) <= Len(showtimes)
        THEN [showtimes |-> unique,
              fixes |-> <<[fix |-> "Removed duplicate showtimes", title |-> title]>>]
        ELSE [showtimes |-> showtimes, fixes |-> <<>>]

\* Fix 1: Remove duplicate showtimes
RemoveDuplicates(title, showtimes) ==
    LET unique == unique_showtimes(showtimes)
    IN  IF Len(unique) < Len(showtimes)
        THEN [showtimes |-> unique,
              fixes |-> <<[fix |-> "Removed duplicate showtimes", title |-> title]>>]
        ELSE [showtimes |-> showtimes, fixes |-> <<>>]

\* max_showtimes with the two caps exchanged
max_showtimes_swapped(cinema_name) ==
    IF Contains(cinema_name, "Regular") THEN OtherCap ELSE RegularCap

max_showtimes(cinema_name) ==
    IF Contains(cinema_name, "Regular") THEN RegularCap ELSE OtherCap

\* Fix 2: Limit showtimes per film
LimitShowtimes(cinema_name, title, showtimes) ==
    IF Len(showtimes) > max_showtimes(cinema_name)
    THEN [showtimes |-> SubSeq(showtimes, 1, max_showtimes(cinema_name)),
          fixes |-> <<[fix |-> "Limited", title |-> title,
                       from |-> Len(showtimes),
                       to |-> max_showtimes(cinema_name)]>>]
    ELSE [showtimes |-> showtimes, fixes |-> <<>>]

\* UpdateFilm building a new film from the known fields only
UpdateFilmRebuilt(film, showtimes) ==
    [k \in (DOMAIN film \cap {"title", "day"}) \cup {"showtimes", "showtime_count"} |->
        IF k = "showtimes" THEN showtimes
        ELSE IF k = "showtime_count" THEN Len(showtimes)
        ELSE film[k]]

\* Update film with fixed showtimes
UpdateFilm(film, showtimes) ==
    Put(Put(film, "showtimes", showtimes), "showtime_count", Len(showtimes))

\* one iteration of the loop over original_films
FixFilm(cinema_name, film) ==
    LET title == Get(film, "title", "Unknown")
        deduped == RemoveDuplicates(title, Get(film, "showtimes", <<>>))
        limited == LimitShowtimes(cinema_name, title, deduped.showtimes)
    IN  IF Len(limited.showtimes) = 0
        THEN \* Fix 3: Remove films with no showtimes
             [keep |-> FALSE, film |-> film,
              fixes |-> deduped.fixes \o limited.fixes
                        \o <<[fix |-> "Removed (no showtimes)", title |-> title]>>]
        ELSE [keep |-> TRUE, film |-> UpdateFilm(film, limited.showtimes),
              fixes |-> deduped.fixes \o limited.fixes]

\* CinemaSummary reporting the retained count for both counts
CinemaSummaryRetainedOnly(cinema_name, original, retained) ==
    [fix |-> "films", cinema |-> cinema_name,
     original |-> retained, retained |-> retained]

\* the per-cinema summary entry
CinemaSummary(cinema_name, original, retained) ==
    [fix |-> "films", cinema |-> cinema_name,
     original |-> original, retained |-> retained]

\* one iteration of the loop over data['cinemas']
FixCinema(cinema) ==
    LET cinema_name == Get(cinema, "name", "Unknown")
        original_films == Get(cinema, "films", <<>>)
        done == [i \in 1..Len(original_films) |->
                    FixFilm(cinema_name, original_films[i])]
        kept == SelectSeq(done, LAMBDA d : d.keep)
        fixed_films == [i \in 1..Len(kept) |-> kept[i].film]
    IN  [cinema |-> Put(cinema, "films", fixed_films),
         fixes |-> Flatten([i \in 1..Len(done) |-> done[i].fixes])
                   \o <<CinemaSummary(cinema_name, Len(original_films),
                                      Len(fixed_films))>>]

\* the whole loop: the data as mutated in place, and fixes_applied
FixData(data) ==
    LET cinemas == Get(data, "cinemas", <<>>)
        done == [i \in 1..Len(cinemas) |-> FixCinema(cinemas[i])]
    IN  [data |-> IF "cinemas" \in DOMAIN data
                  THEN Put(data, "cinemas",
                           [i \in 1..Len(cinemas) |-> done[i].cinema])
                  ELSE data,
         fixes |-> Flatten([i \in 1..Len(cinemas) |-> done[i].fixes])]

(***************************************************************************)
(* validate_cinema_data.  A message is the record of the values its        *)
(* f-string interpolates; rec is the position of the cinema record whose   *)
(* loop iteration appended it (0 for the overall check).                   *)
(***************************************************************************)

\* the keys of films_by_day in insertion order
DaysInOrder(films) ==
    LET day(i) == Get(films[i], "day", "unknown")
        firsts == {i \in 1..Len(films) : \A j \in 1..(i - 1) : day(j) # day(i)}
    IN  [k \in 1..Cardinality(firsts) |->
            day(CHOOSE i \in firsts : Cardinality({j \in firsts : j < i}) = k - 1)]

\* films_by_day[day]
DayFilms(films, day) ==
    SelectSeq(films, LAMBDA film : Get(film, "day", "unknown") = day)

\* what the per-film loop appends to issues for one film
FilmIssues(rec, cinema_name, day, film) ==
    LET showtimes == Get(film, "showtimes", <<>>)
        title == Get(film, "title", "Unknown")
    IN  (IF Len(showtimes) > MaxShowtimesPerFilm
         THEN <<[rule |-> "showtimes (unrealistic)", rec |-> rec,
                 cinema |-> cinema_name, day |-> day, title |-> title,
                 count |-> Len(showtimes)]>>
         ELSE <<>>)
        \o
        (IF Len(showtimes) # Cardinality(Range(showtimes))
         THEN <<[rule |-> "duplicate showtimes", rec |-> rec,
                 cinema |-> cinema_name, day |-> day, title |-> title]>>
         ELSE <<>>)

\* what the per-film loop appends to warnings for one film
FilmWarnings(rec, cinema_name, day, film) ==
    IF Len(Get(film, "showtimes", <<>>)) = 0
    THEN <<[rule |-> "no showtimes", rec |-> rec, cinema |-> cinema_name,
            day |-> day, title |-> Get(film, "title", "Unknown")]>>
    ELSE <<>>

\* Check total film count for the day
DayCountIssues(rec, cinema_name, day, day_films) ==
    IF Len(day_films) > MaxFilmsPerDay
    THEN <<[rule |-> "too many for one day", rec |-> rec,
            cinema |-> cinema_name, day |-> day, count |-> Len(day_films)]>>
    ELSE <<>>

\* DayCountWarnings with >= for > at the lower threshold
DayCountWarningsInclusive(rec, cinema_name, day, day_films) ==
    IF Len(day_films) > MaxFilmsPerDay THEN <<>>
    ELSE IF Len(day_films) >= HighFilmsPerDay
    THEN <<[rule |-> "high but possible", rec |-> rec,
            cinema |-> cinema_name, day |-> day, count |-> Len(day_films)]>>
    ELSE <<>>

DayCountWarnings(rec, cinema_name, day, day_films) ==
    IF Len(day_films) > MaxFilmsPerDay THEN <<>>
    ELSE IF Len(day_films) > HighFilmsPerDay
    THEN <<[rule |-> "high but possible", rec |-> rec,
            cinema |-> cinema_name, day |-> day, count |-> Len(day_films)]>>
    ELSE <<>>

\* title_counts
TitleCounts(day_films) ==
    LET title(i) == Get(day_films[i], "title", "Unknown")
    IN  [t \in {title(i) : i \in 1..Len(day_films)} |->
            Cardinality({i \in 1..Len(day_films) : title(i) = t})]

\* Check for same film appearing multiple times on same day
DuplicateFilmIssues(rec, cinema_name, day, day_films) ==
    LET title_counts == TitleCounts(day_films)
        dups == {t \in DOMAIN title_counts : title_counts[t] > 1}
    IN  IF dups # {}
        THEN <<[rule |-> "Duplicate films", rec |-> rec,
                cinema |-> cinema_name, day |-> day,
                duplicates |-> [t \in dups |-> title_counts[t]]]>>
        ELSE <<>>

\* one iteration of the loop over films_by_day
GroupFindings(rec, cinema_name, day, day_films) ==
    [issues |->
        Flatten([i \in 1..Len(day_films) |->
                    FilmIssues(rec, cinema_name, day, day_films[i])])
        \o DayCountIssues(rec, cinema_name, day, day_films)
        \o DuplicateFilmIssues(rec, cinema_name, day, day_films),
     warnings |->
        Flatten([i \in 1..Len(day_films) |->
                    FilmWarnings(rec, cinema_name, day, day_films[i])])
        \o DayCountWarnings(rec, cinema_name, day, day_films)]

\* one iteration of the loop over data['cinemas']
CinemaFindings(rec, cinema) ==
    LET cinema_name == Get(cinema, "name", "Unknown")
        films == Get(cinema, "films", <<>>)
        days == DaysInOrder(films)
        groups == [k \in 1..Len(days) |->
                      GroupFindings(rec, cinema_name, days[k],
                                    DayFilms(films, days[k]))]
    IN  [issues |-> Flatten([k \in 1..Len(days) |-> groups[k].issues]),
         warnings |-> Flatten([k \in 1..Len(days) |-> groups[k].warnings])]

\* stats[cinema_name] = {...}: one entry per name, the last record's
CinemaStats(cinema) ==
    LET films == Get(cinema, "films", <<>>)
        days == DaysInOrder(films)
    IN  [total_films |-> Len(films),
         days |-> Len(days),
         films_by_day |-> [d \in Range(days) |-> Len(DayFilms(films, d))]]

Stats(cinemas) ==
    LET name(i) == Get(cinemas[i], "name", "Unknown")
        last(n) == CHOOSE i \in 1..Len(cinemas) :
                      /\ name(i) = n
                      /\ \A j \in (i + 1)..Len(cinemas) : name(j) # n
    IN  [n \in {name(i) : i \in 1..Len(cinemas)} |-> CinemaStats(cinemas[last(n)])]

\* Overall validation
TotalFilms(stats) ==
    SumOver([n \in DOMAIN stats |-> stats[n].total_films], DOMAIN stats)

OverallIssues(total_films) ==
    IF total_films > MaxTotalFilms
    THEN <<[rule |-> "Total films across all cinemas", rec |-> 0,
            count |-> total_films]>>
    ELSE <<>>

\* Report with valid also requiring that there are no warnings
ReportStrict(issues, warnings, stats, total_films) ==
    [valid |-> Len(issues) = 0 /\ Len(warnings) = 0,
     stats |-> stats,
     issues |-> issues,
     warnings |-> warnings,
     summary |-> [total_issues |-> Len(issues),
                  total_warnings |-> Len(warnings),
                  total_films |-> total_films]]

\* Generate report
Report(issues, warnings, stats, total_films) ==
    [valid |-> Len(issues) = 0,
     stats |-> stats,
     issues |-> issues,
     warnings |-> warnings,
     summary |-> [total_issues |-> Len(issues),
                  total_warnings |-> Len(warnings),
                  total_films |-> total_films]]

\* the report validate_cinema_data returns for parsed data
ValidateData(data) ==
    LET cinemas == Get(data, "cinemas", <<>>)
        found == [i \in 1..Len(cinemas) |-> CinemaFindings(i, cinemas[i])]
        stats == Stats(cinemas)
        total_films == TotalFilms(stats)
    IN  Report(Flatten([i \in 1..Len(cinemas) |-> found[i].issues])
                  \o OverallIssues(total_films),
               Flatten([i \in 1..Len(cinemas) |-> found[i].warnings]),
               stats, total_films)

(***************************************************************************)
(* The documents the stored file may hold when the program starts.         *)
(***************************************************************************)

\* every sequence over S of length at most n
SeqsUpTo(S, n) == UNION {[1..k -> S] : k \in 0..n}

Prefixes(s) == {SubSeq(s, 1, k) : k \in 0..Len(s)}

\* "9:30" sorts after "21:00" as a string
ShortTimes == {"19:00", "21:00", "9:30"}

Ascending == <<"10:15", "12:30", "14:45", "17:00", "19:00", "21:00", "23:15">>
Descending == <<"23:15", "21:00", "19:00", "17:00", "14:45", "12:30", "10:15">>
Doubled == <<"19:00", "19:00", "21:00", "21:00", "23:00">>
Shuffled == <<"21:00", "19:00", "21:00", "17:00", "23:15", "10:15", "19:00",
              "12:30", "14:45">>

ShowtimeLists ==
    SeqsUpTo(ShortTimes, MaxLen) \cup Prefixes(Ascending)
        \cup Prefixes(Descending) \cup Prefixes(Doubled) \cup Prefixes(Shuffled)

CinemaNames == {"Regular Cinema", "IMAX Regular Screen 1", "IMAX", "regular hall"}

\* one cinema showing one film, over every name and every showtime list
OneFilmDatasets ==
    {[cinemas |-> <<[name |-> n,
                     films |-> <<[title |-> "Dune", day |-> "Mon",
                                  showtimes |-> s]>>]>>] :
        n \in CinemaNames, s \in ShowtimeLists}

FilmInputs ==
    { [title |-> "Dune", day |-> "Mon", showtimes |-> <<"19:00", "21:00">>],
      [day |-> "Mon", showtimes |-> <<>>],
      [title |-> "Heat", day |-> "Tue",
       showtimes |-> <<"21:00", "19:00", "21:00">>,
       showtime_count |-> 9, rating |-> "PG"] }

\* every sequence of at most c cinemas holding at most t films in all
RECURSIVE CinemaSeqs(_, _)
CinemaSeqs(c, t) ==
    {<<>>} \cup
    (IF c = 0 THEN {}
     ELSE UNION {{<<[name |-> n, films |-> fl]>> \o rest :
                     rest \in CinemaSeqs(c - 1, t - Len(fl))} :
                 n \in {"Regular Cinema", "IMAX"},
                 fl \in SeqsUpTo(FilmInputs, t)})

SmallDatasets == {[cinemas |-> cs] : cs \in CinemaSeqs(MaxCinemas, MaxFilms)}

\* records with expected fields missing
LenientDatasets ==
    { [source |-> "scraper"],
      [cinemas |-> <<[city |-> "Cambridge"]>>, source |-> "scraper"],
      [cinemas |-> <<[name |-> "IMAX"], [name |-> "Regular Cinema"]>>],
      [cinemas |-> <<[films |-> <<[title |-> "Dune",
                                   showtimes |-> <<"21:00", "19:00">>],
                                  [rating |-> "15"]>>,
                      city |-> "Cambridge"]>>] }

\* a cinema of n single-showtime films with distinct titles over ndays days
BigCinema(name, n, ndays) ==
    [name |-> name,
     films |-> [i \in 1..n |->
                   [title |-> "Film " \o ToString(i),
                    day |-> "Day " \o ToString(i % ndays),
                    showtimes |-> <<"19:00">>]]]

BigDatasets ==
    {[cinemas |-> <<BigCinema("IMAX", n, 1)>>] :
        n \in {HighFilmsPerDay, HighFilmsPerDay + 1,
               MaxFilmsPerDay, MaxFilmsPerDay + 1}}
    \cup
    {[cinemas |-> <<BigCinema("IMAX", n, MaxFilmsPerDay)>>] :
        n \in {MaxTotalFilms, MaxTotalFilms + 1}}
    \cup
    {[cinemas |-> <<BigCinema("IMAX", MaxTotalFilms \div 2, MaxFilmsPerDay),
                    BigCinema(name2, MaxTotalFilms \div 2 + 1, MaxFilmsPerDay)>>] :
        name2 \in {"IMAX", "Regular Cinema"}}

Datasets == OneFilmDatasets \cup SmallDatasets \cup LenientDatasets \cup BigDatasets

\* the stored file: absent, present but not JSON, or a JSON document
Missing == [kind |-> "missing"]
Unparseable == [kind |-> "unparseable"]
Json(data) == [kind |-> "json", data |-> data]

(***************************************************************************)
(* State.  data_file and backup_file are the two files; call, returned and *)
(* fixes_applied describe the last call made; pre records the data file as *)
(* that call found it, whether auto_fix_data had written it, and whether   *)
(* auto_fix_data had altered it.                                           *)
(***************************************************************************)

True == [kind |-> "value", value |-> TRUE]
False == [kind |-> "value", value |-> FALSE]
Raised(exception) == [kind |-> "raised", exception |-> exception]
Returned(report) == [kind |-> "report", report |-> report]

\* the stored file is one auto_fix_data wrote
Fixed == pre.fixed \/ (call.op = "auto_fix_data" /\ returned = True)

\* a call of auto_fix_data has altered the stored file
Changed ==
    pre.changed
        \/ (call.op = "auto_fix_data" /\ returned = True /\ data_file # pre.data_file)

Init ==
    /\ data_file \in {Missing, Unparseable} \cup {Json(d) : d \in Datasets}
    /\ backup_file = Missing
    /\ call = [op |-> "none"]
    /\ returned = [kind |-> "none"]
    /\ fixes_applied = <<>>
    /\ pre = [data_file |-> data_file, fixed |-> FALSE, changed |-> FALSE]

validate_cinema_data ==
    /\ call' = [op |-> "validate_cinema_data"]
    /\ pre' = [data_file |-> data_file, fixed |-> Fixed, changed |-> Changed]
    /\ returned' =
          IF data_file.kind = "json"
          THEN Returned(ValidateData(data_file.data))
          ELSE Returned([valid |-> FALSE, error |-> "Cannot read JSON file"])
    /\ fixes_applied' = <<>>
    /\ UNCHANGED <<data_file, backup_file>>

auto_fix_data(backup) ==
    /\ call' = [op |-> "auto_fix_data", backup |-> backup]
    /\ pre' = [data_file |-> data_file, fixed |-> Fixed, changed |-> Changed]
    /\ IF backup /\ data_file.kind = "missing"
       THEN \* shutil.copy raises before the try block
            /\ returned' = Raised("FileNotFoundError")
            /\ fixes_applied' = <<>>
            /\ UNCHANGED <<data_file, backup_file>>
       ELSE /\ backup_file' = IF backup THEN data_file ELSE backup_file
            /\ IF data_file.kind # "json"
               THEN /\ returned' = False
                    /\ fixes_applied' = <<>>
                    /\ UNCHANGED data_file
               ELSE LET fixed == FixData(data_file.data)
                    IN  /\ data_file' = Json(fixed.data)
                        /\ fixes_applied' = fixed.fixes
                        /\ returned' = True

Next ==
    \/ validate_cinema_data
    \/ \E backup \in BOOLEAN : auto_fix_data(backup)

Spec == Init /\ [][Next]_vars

(***************************************************************************)
(* Vocabulary of the properties.                                           *)
(***************************************************************************)

\* the last call was auto_fix_data and it returned True
FixRan == call.op = "auto_fix_data" /\ returned = True

\* the last call was validate_cinema_data on a readable source
ValidateRan == call.op = "validate_cinema_data" /\ pre.data_file.kind = "json"

Before == pre.data_file.data
After == data_file.data

CinemasOf(data) == Get(data, "cinemas", <<>>)
NameOf(cinema) == Get(cinema, "name", "Unknown")
FilmsOf(cinema) == Get(cinema, "films", <<>>)
TitleOf(film) == Get(film, "title", "Unknown")
DayOf(film) == Get(film, "day", "unknown")
ShowtimesOf(film) == Get(film, "showtimes", <<>>)

\* the number of distinct showtime values of a film
DistinctCount(film) == Cardinality(Range(ShowtimesOf(film)))

\* obj without the keys in keys
Without(obj, keys) == [k \in DOMAIN obj \ keys |-> obj[k]]

Smaller(m, n) == IF m < n THEN m ELSE n

StrictlyAscending(showtimes) ==
    \A i \in 1..(Len(showtimes) - 1) : LexLess(showtimes[i], showtimes[i + 1])

\* the positions in fixes_applied of the per-cinema summary entries
SummaryPositions ==
    SelectSeq([k \in 1..Len(fixes_applied) |-> k],
              LAMBDA k : fixes_applied[k].fix = "films")

\* the entries auto_fix_data logged while it processed the i-th cinema,
\* the summary entry excluded
LogOf(i) ==
    SubSeq(fixes_applied,
           IF i = 1 THEN 1 ELSE SummaryPositions[i - 1] + 1,
           SummaryPositions[i] - 1)

\* the entries of log of one kind
EntriesOf(log, kind) == SelectSeq(log, LAMBDA e : e.fix = kind)

\* the films of the i-th cinema of data shown on day
GroupOf(data, i, day) ==
    SelectSeq(FilmsOf(CinemasOf(data)[i]), LAMBDA film : DayOf(film) = day)

DaysOf(data, i) ==
    {DayOf(FilmsOf(CinemasOf(data)[i])[j]) :
        j \in 1..Len(FilmsOf(CinemasOf(data)[i]))}

\* the messages of the report about the group (i, day)
AboutGroup(messages, i, day) ==
    SelectSeq(messages, LAMBDA m : m.rec = i /\ m.day = day)

\* the group meets the four conditions of the clean-group property
CleanGroup(group) ==
    /\ Len(group) <= 20
    /\ \A j \in 1..Len(group) :
          /\ Len(ShowtimesOf(group[j])) <= 4
          /\ Len(ShowtimesOf(group[j])) = DistinctCount(group[j])
    /\ Cardinality({TitleOf(group[j]) : j \in 1..Len(group)}) = Len(group)

\* the sum of the film-list lengths over the first n cinema records
RECURSIVE FilmsInFirst(_, _)
FilmsInFirst(cinemas, n) ==
    IF n = 0 THEN 0
    ELSE Len(FilmsOf(cinemas[n])) + FilmsInFirst(cinemas, n - 1)

(***************************************************************************)
(* Properties.                                                             *)
(***************************************************************************)

\* C1: after auto_fix_data succeeds, every film that remains has showtimes
\* that are strictly ascending in string order (so without repeats) and at
\* most as many as the cap selected for its cinema.
C1_FixedShowtimesAscending ==
    FixRan =>
        \A i \in 1..Len(CinemasOf(After)) :
            \A j \in 1..Len(FilmsOf(CinemasOf(After)[i])) :
                LET showtimes == ShowtimesOf(FilmsOf(CinemasOf(After)[i])[j])
                IN  /\ StrictlyAscending(showtimes)
                    /\ Len(showtimes) <= max_showtimes(NameOf(CinemasOf(After)[i]))

\* C2: auto_fix_data run on a file that auto_fix_data wrote leaves the file
\* as it is and logs nothing but per-cinema summary entries, each with equal
\* original and retained counts.
C2_FixerIdempotent ==
    (FixRan /\ pre.fixed) =>
        /\ data_file = pre.data_file
        /\ \A k \in 1..Len(fixes_applied) :
              /\ fixes_applied[k].fix = "films"
              /\ fixes_applied[k].original = fixes_applied[k].retained

\* a second run on a file that the first run had altered, with a summary logged
C2_Witness ==
    /\ FixRan
    /\ pre.fixed
    /\ pre.changed
    /\ Len(fixes_applied) > 0

\* C3: auto_fix_data on a source that cannot be read returns False, whatever
\* backup is, and leaves the file as it is; it returns True only when the
\* source was read and the corrected data written.
C3_UnreadableReturnsFalse ==
    call.op = "auto_fix_data" =>
        /\ pre.data_file.kind # "json" =>
              (returned = False /\ data_file = pre.data_file)
        /\ returned = True =>
              (pre.data_file.kind = "json"
                  /\ data_file = Json(FixData(Before).data))

\* C4: the report has one overall issue when the film-list lengths of all
\* cinema records sum to more than 500 and none otherwise, and
\* summary.total_films is that sum, records of one name counted one by one.
C4_TotalCountsEveryRecord ==
    ValidateRan =>
        LET report == returned.report
            sum == FilmsInFirst(CinemasOf(Before), Len(CinemasOf(Before)))
            overall == SelectSeq(report.issues, LAMBDA m : m.rec = 0)
        IN  /\ report.summary.total_films = sum
            /\ Len(overall) = (IF sum > 500 THEN 1 ELSE 0)

\* C5 as stated: a group of at most 20 films, none with more than 4
\* showtimes or a repeated showtime, and no title twice, gets no issue and no
\* warning.
C5_CleanGroupNoFindings ==
    ValidateRan =>
        \A i \in 1..Len(CinemasOf(Before)) :
            \A day \in DaysOf(Before, i) :
                CleanGroup(GroupOf(Before, i, day)) =>
                    /\ Len(AboutGroup(returned.report.issues, i, day)) = 0
                    /\ Len(AboutGroup(returned.report.warnings, i, day)) = 0

\* the group is clean and every film of it has a showtime
CleanShownGroup(group) ==
    /\ CleanGroup(group)
    /\ \A j \in 1..Len(group) : Len(ShowtimesOf(group[j])) > 0

\* C5 amended: a group of at most 20 films, each with 1 to 4 showtimes and
\* none repeated, and no title twice, gets no issue and no warning.
C5_CleanShownGroupNoFindings ==
    ValidateRan =>
        \A i \in 1..Len(CinemasOf(Before)) :
            \A day \in DaysOf(Before, i) :
                CleanShownGroup(GroupOf(Before, i, day)) =>
                    /\ Len(AboutGroup(returned.report.issues, i, day)) = 0
                    /\ Len(AboutGroup(returned.report.warnings, i, day)) = 0

\* a report on a clean group of exactly 20 films, each with a showtime
C5_Witness ==
    /\ ValidateRan
    /\ \E i \in 1..Len(CinemasOf(Before)) :
          \E day \in DaysOf(Before, i) :
              /\ Len(GroupOf(Before, i, day)) = 20
              /\ CleanShownGroup(GroupOf(Before, i, day))

\* the truncation property for a given choice of caps: in every cinema the
\* "Limited" entries are, in film order, those of the films whose distinct
\* showtimes outnumber the cap, from that number to the cap, and every
\* retained film keeps the smaller of the two numbers of showtimes
TruncatesAt(forRegular, forOthers) ==
    \A i \in 1..Len(CinemasOf(Before)) :
        LET cinema == CinemasOf(Before)[i]
            cap == IF Contains(NameOf(cinema), "Regular")
                   THEN forRegular ELSE forOthers
            over == SelectSeq(FilmsOf(cinema),
                              LAMBDA film : DistinctCount(film) > cap)
            shown == SelectSeq(FilmsOf(cinema),
                               LAMBDA film : DistinctCount(film) > 0)
            fixed_films == FilmsOf(CinemasOf(After)[i])
        IN  /\ EntriesOf(LogOf(i), "Limited") =
                  [k \in 1..Len(over) |->
                      [fix |-> "Limited", title |-> TitleOf(over[k]),
                       from |-> DistinctCount(over[k]), to |-> cap]]
            /\ Len(fixed_films) = Len(shown)
            /\ \A k \in 1..Len(shown) :
                  Len(ShowtimesOf(fixed_films[k])) =
                      Smaller(DistinctCount(shown[k]), cap)

\* C6 as stated: the cap is 5 for a cinema whose name contains "Regular"
\* and 3 for any other; a film is truncated, with a "Limited" entry, exactly
\* when its showtimes after deduplication outnumber the cap, and to the cap.
C6_CapFiveForRegular == FixRan => TruncatesAt(5, 3)

\* C6 amended: the cap is 3 for a cinema whose name contains "Regular" and
\* 5 for any other; a film is truncated, with a "Limited" entry, exactly
\* when its showtimes after deduplication outnumber the cap, and to the cap.
C6_CapThreeForRegular == FixRan => TruncatesAt(3, 5)

\* a film of a "Regular" cinema cut from 4 distinct showtimes to 3
C6_Witness ==
    /\ FixRan
    /\ \E i \in 1..Len(CinemasOf(Before)) :
          /\ Contains(NameOf(CinemasOf(Before)[i]), "Regular")
          /\ \E j \in 1..Len(FilmsOf(CinemasOf(Before)[i])) :
                DistinctCount(FilmsOf(CinemasOf(Before)[i])[j]) = 4
          /\ \E k \in 1..Len(LogOf(i)) :
                /\ LogOf(i)[k].fix = "Limited"
                /\ LogOf(i)[k].from = 4
                /\ LogOf(i)[k].to = 3

\* C7: in a report on a readable source, valid is true exactly when there
\* are no issues, however many warnings there are, and the summary holds the
\* lengths of the two lists.
C7_ValidIffNoIssues ==
    ValidateRan =>
        LET report == returned.report
        IN  /\ report.valid <=> (Len(report.issues) = 0)
            /\ report.summary.total_issues = Len(report.issues)
            /\ report.summary.total_warnings = Len(report.warnings)

\* a valid report that carries a warning
C7_Witness ==
    /\ ValidateRan
    /\ returned.report.valid
    /\ Len(returned.report.warnings) > 0

\* C8: a successful auto_fix_data leaves the sequence of cinemas and every
\* cinema field but films as they were, keeps the retained films in their
\* order, and leaves every field of a retained film but showtimes and
\* showtime_count as it was.
C8_FixerFrame ==
    FixRan =>
        /\ DOMAIN After = DOMAIN Before
        /\ Without(After, {"cinemas"}) = Without(Before, {"cinemas"})
        /\ Len(CinemasOf(After)) = Len(CinemasOf(Before))
        /\ \A i \in 1..Len(CinemasOf(Before)) :
              LET cinema == CinemasOf(Before)[i]
                  fixed == CinemasOf(After)[i]
                  shown == SelectSeq(FilmsOf(cinema),
                                     LAMBDA film : Len(ShowtimesOf(film)) > 0)
                  rest(film) == Without(film, {"showtimes", "showtime_count"})
              IN  /\ Without(fixed, {"films"}) = Without(cinema, {"films"})
                  /\ Len(FilmsOf(fixed)) = Len(shown)
                  /\ \A k \in 1..Len(shown) :
                        rest(FilmsOf(fixed)[k]) = rest(shown[k])

\* a cinema that lost a film and kept one carrying an extra field
C8_Witness ==
    /\ FixRan
    /\ \E i \in 1..Len(CinemasOf(Before)) :
          /\ Len(FilmsOf(CinemasOf(After)[i])) < Len(FilmsOf(CinemasOf(Before)[i]))
          /\ \E k \in 1..Len(FilmsOf(CinemasOf(After)[i])) :
                "rating" \in DOMAIN FilmsOf(CinemasOf(After)[i])[k]

\* C9: auto_fix_data removes exactly the films left without showtimes (the
\* films that had none: deduplication and the cap empty no list), logs one
\* "Removed" entry for each, gives every other film a showtime_count equal
\* to the length of its list, and logs for every cinema a summary of the
\* original count and the retained count, their difference the number removed.
C9_DropsEmptyFilms ==
    FixRan =>
        /\ Len(SummaryPositions) = Len(CinemasOf(Before))
        /\ \A i \in 1..Len(CinemasOf(Before)) :
              LET cinema == CinemasOf(Before)[i]
                  fixed_films == FilmsOf(CinemasOf(After)[i])
                  empty == SelectSeq(FilmsOf(cinema),
                                     LAMBDA film : Len(ShowtimesOf(film)) = 0)
              IN  /\ EntriesOf(LogOf(i), "Removed (no showtimes)") =
                        [k \in 1..Len(empty) |->
                            [fix |-> "Removed (no showtimes)",
                             title |-> TitleOf(empty[k])]]
                  /\ Len(fixed_films) = Len(FilmsOf(cinema)) - Len(empty)
                  /\ \A k \in 1..Len(fixed_films) :
                        /\ Len(ShowtimesOf(fixed_films[k])) > 0
                        /\ "showtime_count" \in DOMAIN fixed_films[k]
                        /\ fixed_films[k].showtime_count =
                              Len(ShowtimesOf(fixed_films[k]))
                  /\ fixes_applied[SummaryPositions[i]] =
                        [fix |-> "films", cinema |-> NameOf(cinema),
                         original |-> Len(FilmsOf(cinema)),
                         retained |-> Len(fixed_films)]

\* a cinema that lost a film and kept another
C9_Witness ==
    /\ FixRan
    /\ \E k \in 1..Len(fixes_applied) :
          /\ fixes_applied[k].fix = "films"
          /\ fixes_applied[k].retained > 0
          /\ fixes_applied[k].retained < fixes_applied[k].original
    /\ \E k \in 1..Len(fixes_applied) :
          fixes_applied[k].fix = "Removed (no showtimes)"

\* C10: a report on a file that auto_fix_data wrote has no "showtimes
\* (unrealistic)" issue, no "duplicate showtimes" issue and no "no
\* showtimes" warning.
C10_FixedFileHasNoFilmFindings ==
    (ValidateRan /\ pre.fixed) =>
        /\ \A k \in 1..Len(returned.report.issues) :
              returned.report.issues[k].rule \notin
                  {"showtimes (unrealistic)", "duplicate showtimes"}
        /\ \A k \in 1..Len(returned.report.warnings) :
              returned.report.warnings[k].rule # "no showtimes"

====
